---- MODULE Spec2Model ----
(***************************************************************************)
(* Grokipedia Search Suggestions API (src/main.py).                        *)
(*                                                                         *)
(* One POST /suggestions request at a time is followed through             *)
(* get_suggestions and get_grokipedia_suggestions: validation, driver      *)
(* discovery, browser launch, navigation, the bounded wait for the search  *)
(* input, typing, the eight-selector extraction loop, the fallback scan,   *)
(* the except/finally blocks and the response.  The browser, the file      *)
(* system and the live DOM are the environment: what they return is drawn  *)
(* from small sets.  Text is a sequence of one-character strings, so that  *)
(* strip(), lower(), len() and the substring test are computed.  The       *)
(* Chrome options and the browser binary probe (lines 99-136) change no    *)
(* control flow and are left out, and so is the headless flag.             *)
(***************************************************************************)
EXTENDS Integers, Sequences, FiniteSets, TLC

(* ------------------------------ bounds -------------------------------- *)

\* number of distinct qualifying texts on the largest fallback page
FbCount == 12

(* ------------------------- program constants --------------------------- *)

\* WebDriverWait(driver, 10)
WaitTimeout == 10
\* len(text) > 2
MinLen == 2
\* 2 < len(text) < 200
MaxTextLen == 200
\* if len(suggestions) >= 10: break
FallbackLimit == 10

\* the selectors list has eight entries
selectors ==
  << "div[class*='cursor-pointer'] span",
     "div.cursor-pointer span",
     "[role='option']",
     "div[class*='search'] div[class*='result']",
     "div[class*='suggestion']",
     "div[class*='autocomplete'] span",
     "ul[class*='suggestions'] li",
     "div[class*='dropdown'] div" >>

common_paths ==
  << "/usr/bin/chromedriver",
     "/usr/local/bin/chromedriver",
     "/opt/chromedriver/chromedriver",
     "/usr/lib/chromium-browser/chromedriver" >>

NoPath == "None"

(* ------------------------------- text ---------------------------------- *)

Whitespace == {" ", "\t"}

UpperChars == << "A", "B", "C", "D", "E", "F", "G", "H", "I", "J", "K", "L", "M",
                 "N", "O", "P", "Q", "R", "S", "T", "U", "V", "W", "X", "Y", "Z" >>
LowerChars == << "a", "b", "c", "d", "e", "f", "g", "h", "i", "j", "k", "l", "m",
                 "n", "o", "p", "q", "r", "s", "t", "u", "v", "w", "x", "y", "z" >>

\* str.lower() on one character
LowerChar(c) ==
  IF \E i \in 1..Len(UpperChars) : UpperChars[i] = c
  THEN LowerChars[CHOOSE i \in 1..Len(UpperChars) : UpperChars[i] = c]
  ELSE c

\* str.lower()
lower(s) == [i \in 1..Len(s) |-> LowerChar(s[i])]

\* str.strip(): leading and trailing whitespace removed
strip(s) ==
  LET keep == {i \in 1..Len(s) : s[i] \notin Whitespace}
  IN IF keep = {} THEN << >>
     ELSE LET lo == CHOOSE i \in keep : \A j \in keep : i <= j
              hi == CHOOSE i \in keep : \A j \in keep : j <= i
          IN SubSeq(s, lo, hi)

\* `sub in s` on strings
Contains(sub, s) ==
  \E i \in 1..(Len(s) - Len(sub) + 1) : SubSeq(s, i, i + Len(sub) - 1) = sub

\* `x in list`
InList(x, list) == \E i \in 1..Len(list) : list[i] = x

(* ---------------------- the filters of the two scans ------------------- *)

KeepSelectorNoDedup(text, sugg) == text # << >> /\ Len(text) > MinLen

\* if text and len(text) > 2 and text not in suggestions
KeepSelector(text, sugg) ==
  text # << >> /\ Len(text) > MinLen /\ ~InList(text, sugg)

KeepFallbackAllowQuery(text, sugg, q) ==
  /\ text # << >>
  /\ MinLen < Len(text) /\ Len(text) < MaxTextLen
  /\ Contains(lower(q), lower(text))
  /\ ~InList(text, sugg)

\* if (text and 2 < len(text) < 200 and query.lower() in text.lower()
\*     and text not in suggestions and text != query)
KeepFallback(text, sugg, q) ==
  /\ text # << >>
  /\ MinLen < Len(text) /\ Len(text) < MaxTextLen
  /\ Contains(lower(q), lower(text))
  /\ ~InList(text, sugg)
  /\ text # q

(* -------------------------- driver discovery --------------------------- *)

\* get_chromedriver_path(): `which` is shutil.which('chromedriver') and
\* `execs` the indices of common_paths that exist and are executable
get_chromedriver_path(which, execs) ==
  IF which # NoPath THEN which
  ELSE IF execs # {}
       THEN common_paths[CHOOSE i \in execs : \A j \in execs : i <= j]
       ELSE NoPath

(* ----------------------------- exceptions ------------------------------ *)

NoExc == [kind |-> "none"]

WebDriverException(msg) == [kind |-> "WebDriverException", msg |-> msg]

\* WebDriverWait.until raises TimeoutException(message) with the default
\* empty message
TimeoutException == [kind |-> "TimeoutException", msg |-> << >>]

HTTPException(status_code, detail) ==
  [kind |-> "HTTPException", status_code |-> status_code, detail |-> detail]

\* an exception of another library (ChromeDriverManager().install())
OtherException(msg) == [kind |-> "Exception", msg |-> msg]

\* str(e): "Message: <msg>" for the browser library's exceptions,
\* "<status_code>: <detail>" for an HTTPException (as the current web
\* framework formats it), the message itself otherwise
StrOf(e) ==
  IF e.kind = "HTTPException"
  THEN << IF e.status_code = 500 THEN "500: " ELSE "400: " >> \o e.detail
  ELSE IF e.kind = "Exception" THEN e.msg
  ELSE << "Message: " >> \o e.msg

FailedToGet == "Failed to get suggestions: "
FailedManager == "Failed to setup ChromeDriver with webdriver-manager: "
Remediation ==
  << "ChromeDriver not found. Solutions:\n",
     "1. Install ChromeDriver: apt-get install chromium-chromedriver\n",
     "2. Install webdriver-manager: pip install webdriver-manager\n",
     "3. Add ChromeDriver to PATH\n" >>

\* error_msg of the automatic-detection branch
error_msg(e) == Remediation \o << "Error: " >> \o StrOf(e)

(* ------------------- inputs drawn by the environment ------------------- *)

cat == << "c", "a", "t" >>
Cat == << "C", "a", "t" >>
cats == << "c", "a", "t", "s" >>
CATS == << "C", "A", "T", "S" >>
dog == << "d", "o", "g" >>
Category == << "C", "a", "t", "e", "g", "o", "r", "y" >>
Padding(n) == [i \in 1..n |-> "x"]
\* a text of exactly MaxTextLen characters and one of MaxTextLen - 1
LongText == cat \o Padding(MaxTextLen - Len(cat))
AlmostLongText == cat \o Padding(MaxTextLen - Len(cat) - 1)

\* request.query
Queries ==
  { << >>, << " ", " " >>, cat, << " " >> \o cat \o << "\t" >>, Cat }

\* what driver.find_elements may return for one of the eight selectors:
\* the elem.text of each element, in document order
ElementLists ==
  { << >>,
    << Category, cats, cats >>,
    << << "c", "a" >>, << >>, << " ", " " >> >>,
    << << " ", " " >> \o cats \o << "\t" >>, Category >> }

\* what driver.find_elements may return for "div, span, li"
ManyMatches == [k \in 1..FbCount |-> cat \o << LowerChars[k] >>]
MixedMatches ==
  << cat, << " " >> \o CATS \o << " " >>, << "c", "a" >>, dog, LongText,
     AlmostLongText, CATS, << >>, Cat, << "\t" >> \o cats >>
FallbackPages == { << >>, ManyMatches, MixedMatches }

\* messages of the exceptions the browser library raises
Causes == { << "net::ERR_FAILED" >>, << "session not created" >> }

\* results of shutil.which('chromedriver')
WhichResults == { NoPath, "/app/bin/chromedriver" }

\* the common_paths that exist and are executable, by index
ExecSets == { {}, {3}, {2, 4} }

(* ------------------------------- state --------------------------------- *)

VARIABLES
  pc,                 \* position in the request handler
  WEBDRIVER_MANAGER_AVAILABLE, \* module-level flag set at import
  request,            \* request.query as received
  query,              \* the query parameter of get_grokipedia_suggestions
  provisionCalls,     \* calls of get_chromedriver_path for this request
  chromedriver_path,  \* result of get_chromedriver_path
  launchVia,          \* branch that tried to create the driver
  driver,             \* TRUE when the local `driver` is not None
  sessionLive,        \* the browser process of this request is running
  elapsed,            \* time units spent in WebDriverWait.until
  sel,                \* index of the selector the loop is at
  elements,           \* result of the last find_elements of the loop
  pos,                \* index of the element being read
  suggestions,        \* the list being collected
  selFailed,          \* some selector's try block raised (a debug line)
  queried,            \* number of find_elements calls of the loop
  fallbackRan,        \* the "if not suggestions" branch was entered
  all_elements,       \* result of find_elements("div, span, li")
  fpos,               \* index of the fallback element being read
  exc,                \* exception caught by the outer except
  failedAt,           \* statement that raised it
  pending,            \* return value or exception in flight
  quitCalls,          \* calls of driver.quit for this request
  quitFailed,         \* driver.quit raised
  resp                \* the HTTP response

vars ==
  << pc, WEBDRIVER_MANAGER_AVAILABLE, request, query, provisionCalls,
     chromedriver_path, launchVia, driver, sessionLive, elapsed, sel, elements,
     pos, suggestions, selFailed, queried, fallbackRan, all_elements, fpos,
     exc, failedAt, pending, quitCalls, quitFailed, resp >>

\* everything a request's locals hold
locals ==
  << query, provisionCalls, chromedriver_path, launchVia, driver, sessionLive,
     elapsed, sel, elements, pos, suggestions, selFailed, queried, fallbackRan,
     all_elements, fpos, exc, failedAt, pending, quitCalls, quitFailed >>

\* the locals of the extraction part
scan == << sel, elements, pos, suggestions, selFailed, queried, fallbackRan,
           all_elements, fpos >>

NoResp == [status |-> 0]
NoPending == [kind |-> "none"]

Init ==
  /\ pc = "idle"
  /\ WEBDRIVER_MANAGER_AVAILABLE \in BOOLEAN
  /\ request = << >>
  /\ query = << >>
  /\ provisionCalls = 0
  /\ chromedriver_path = NoPath
  /\ launchVia = "none"
  /\ driver = FALSE
  /\ sessionLive = FALSE
  /\ elapsed = 0
  /\ sel = 0
  /\ elements = << >>
  /\ pos = 0
  /\ suggestions = << >>
  /\ selFailed = FALSE
  /\ queried = 0
  /\ fallbackRan = FALSE
  /\ all_elements = << >>
  /\ fpos = 0
  /\ exc = NoExc
  /\ failedAt = "none"
  /\ pending = NoPending
  /\ quitCalls = 0
  /\ quitFailed = FALSE
  /\ resp = NoResp

(* ------------------------------ actions -------------------------------- *)

\* a POST /suggestions request arrives; the handler's locals are fresh
Receive ==
  /\ pc \in {"idle", "done"}
  /\ \E q \in Queries : request' = q
  /\ pc' = "validate"
  /\ query' = << >>
  /\ provisionCalls' = 0
  /\ chromedriver_path' = NoPath
  /\ launchVia' = "none"
  /\ driver' = FALSE
  /\ sessionLive' = FALSE
  /\ elapsed' = 0
  /\ sel' = 0
  /\ elements' = << >>
  /\ pos' = 0
  /\ suggestions' = << >>
  /\ selFailed' = FALSE
  /\ queried' = 0
  /\ fallbackRan' = FALSE
  /\ all_elements' = << >>
  /\ fpos' = 0
  /\ exc' = NoExc
  /\ failedAt' = "none"
  /\ pending' = NoPending
  /\ quitCalls' = 0
  /\ quitFailed' = FALSE
  /\ resp' = NoResp
  /\ UNCHANGED WEBDRIVER_MANAGER_AVAILABLE

ValidateNoStrip ==
  /\ pc = "validate"
  /\ IF request = << >>
     THEN /\ resp' = [status |-> 400,
                      detail |-> << "Query field is required and cannot be empty" >>]
          /\ pc' = "done"
          /\ UNCHANGED query
     ELSE /\ query' = strip(request)
          /\ pc' = "provision"
          /\ UNCHANGED resp
  /\ UNCHANGED << WEBDRIVER_MANAGER_AVAILABLE, request, provisionCalls,
                  chromedriver_path, launchVia, driver, sessionLive, elapsed,
                  scan, exc, failedAt, pending, quitCalls, quitFailed >>

\* if not query or not query.strip(): raise HTTPException(400), which
\* "except HTTPException: raise" hands to the framework; otherwise the
\* scraper is called with query.strip()
Validate ==
  /\ pc = "validate"
  /\ IF request = << >> \/ strip(request) = << >>
     THEN /\ resp' = [status |-> 400,
                      detail |-> << "Query field is required and cannot be empty" >>]
          /\ pc' = "done"
          /\ UNCHANGED query
     ELSE /\ query' = strip(request)
          /\ pc' = "provision"
          /\ UNCHANGED resp
  /\ UNCHANGED << WEBDRIVER_MANAGER_AVAILABLE, request, provisionCalls,
                  chromedriver_path, launchVia, driver, sessionLive, elapsed,
                  scan, exc, failedAt, pending, quitCalls, quitFailed >>

\* chromedriver_path = get_chromedriver_path()
Provision ==
  /\ pc = "provision"
  /\ \E which \in WhichResults, execs \in ExecSets :
       chromedriver_path' = get_chromedriver_path(which, execs)
  /\ provisionCalls' = provisionCalls + 1
  /\ pc' = "launch"
  /\ UNCHANGED << WEBDRIVER_MANAGER_AVAILABLE, request, query, launchVia,
                  driver, sessionLive, elapsed, scan, exc, failedAt, pending,
                  quitCalls, quitFailed, resp >>

\* webdriver.Chrome(...) returned: driver is bound to a live session
Launched ==
  /\ driver' = TRUE
  /\ sessionLive' = TRUE
  /\ pc' = "navigate"
  /\ UNCHANGED << exc, failedAt >>

\* the statement raised e; control goes to the outer except
Raise(e) ==
  /\ exc' = e
  /\ failedAt' = pc
  /\ pc' = "except"

LaunchIgnoresManager ==
  /\ pc = "launch"
  /\ IF chromedriver_path # NoPath
     THEN /\ launchVia' = "path"
          /\ \/ Launched
             \/ \E c \in Causes :
                  Raise(WebDriverException(c)) /\ UNCHANGED << driver, sessionLive >>
     ELSE /\ launchVia' = "auto"
          /\ \/ Launched
             \/ \E c \in Causes :
                  /\ Raise(HTTPException(500, error_msg(WebDriverException(c))))
                  /\ UNCHANGED << driver, sessionLive >>
  /\ UNCHANGED << WEBDRIVER_MANAGER_AVAILABLE, request, query, provisionCalls,
                  chromedriver_path, elapsed, scan, pending, quitCalls,
                  quitFailed, resp >>

\* the three ways of creating the driver; the HTTPException of the inner
\* except blocks is raised inside the outer try
Launch ==
  /\ pc = "launch"
  /\ IF chromedriver_path # NoPath
     THEN /\ launchVia' = "path"
          /\ \/ Launched
             \/ \E c \in Causes :
                  Raise(WebDriverException(c)) /\ UNCHANGED << driver, sessionLive >>
     ELSE IF WEBDRIVER_MANAGER_AVAILABLE
     THEN /\ launchVia' = "manager"
          /\ \/ Launched
             \/ \E c \in Causes :
                  \E e \in {OtherException(c), WebDriverException(c)} :
                  /\ Raise(HTTPException(500, << FailedManager >> \o StrOf(e)))
                  /\ UNCHANGED << driver, sessionLive >>
     ELSE /\ launchVia' = "auto"
          /\ \/ Launched
             \/ \E c \in Causes :
                  /\ Raise(HTTPException(500, error_msg(WebDriverException(c))))
                  /\ UNCHANGED << driver, sessionLive >>
  /\ UNCHANGED << WEBDRIVER_MANAGER_AVAILABLE, request, query, provisionCalls,
                  chromedriver_path, elapsed, scan, pending, quitCalls,
                  quitFailed, resp >>

\* driver.get("https://grokipedia.com/"); time.sleep(2)
Navigate ==
  /\ pc = "navigate"
  /\ \/ pc' = "locate" /\ elapsed' = 0 /\ UNCHANGED << exc, failedAt >>
     \/ \E c \in Causes : Raise(WebDriverException(c)) /\ UNCHANGED elapsed
  /\ UNCHANGED << WEBDRIVER_MANAGER_AVAILABLE, request, query, provisionCalls,
                  chromedriver_path, launchVia, driver, sessionLive, scan,
                  pending, quitCalls, quitFailed, resp >>

\* driver.get never returns: no page-load or request timeout is set
NavigateHangs ==
  /\ pc = "navigate"
  /\ pc' = "hung"
  /\ UNCHANGED << WEBDRIVER_MANAGER_AVAILABLE, request, locals, resp >>

\* the rest that neither the wait nor the scan touches
env == << WEBDRIVER_MANAGER_AVAILABLE, request, query, provisionCalls,
          chromedriver_path, launchVia, driver, sessionLive >>

LocateInputUnbounded ==
  /\ pc = "locate"
  /\ \/ pc' = "type" /\ elapsed' = 0 /\ UNCHANGED << exc, failedAt >>
     \/ /\ elapsed' = (elapsed + 1) % (WaitTimeout + 1)
        /\ UNCHANGED << pc, exc, failedAt >>
     \/ \E c \in Causes : Raise(WebDriverException(c)) /\ elapsed' = 0
  /\ UNCHANGED << env, scan, pending, quitCalls, quitFailed, resp >>

\* WebDriverWait(driver, 10).until(presence_of_element_located(...)):
\* each poll finds the input, or time passes, until the wait expires; the
\* wait's clock is gone when until() is left
LocateInput ==
  /\ pc = "locate"
  /\ \/ /\ elapsed < WaitTimeout
        /\ pc' = "type"
        /\ elapsed' = 0
        /\ UNCHANGED << exc, failedAt >>
     \/ /\ elapsed < WaitTimeout
        /\ elapsed' = elapsed + 1
        /\ UNCHANGED << pc, exc, failedAt >>
     \/ /\ elapsed >= WaitTimeout
        /\ Raise(TimeoutException)
        /\ elapsed' = 0
     \/ \E c \in Causes : Raise(WebDriverException(c)) /\ elapsed' = 0
  /\ UNCHANGED << env, scan, pending, quitCalls, quitFailed, resp >>

\* search_input.clear(); search_input.send_keys(query); time.sleep(2);
\* suggestions = []
TypeQuery ==
  /\ pc = "type"
  /\ \/ /\ pc' = "select"
        /\ sel' = 1
        /\ suggestions' = << >>
        /\ UNCHANGED << exc, failedAt >>
     \/ /\ \E c \in Causes : Raise(WebDriverException(c))
        /\ UNCHANGED << sel, suggestions >>
  /\ UNCHANGED << env, elapsed, elements, pos, selFailed, queried, fallbackRan,
                  all_elements, fpos, pending, quitCalls, quitFailed, resp >>

\* the for loop moves to its next selector, or ends after the eighth
NextSelector ==
  IF sel < Len(selectors)
  THEN sel' = sel + 1 /\ pc' = "select"
  ELSE sel' = sel /\ pc' = "afterloop"

\* except Exception: logger.debug(...); continue
SelectorFailed ==
  /\ selFailed' = TRUE
  /\ NextSelector

\* elements = driver.find_elements(By.CSS_SELECTOR, selector); if elements:
FindSelector ==
  /\ pc = "select"
  /\ queried' = queried + 1
  /\ \/ SelectorFailed /\ UNCHANGED << elements, pos >>
     \/ \E els \in ElementLists :
          /\ elements' = els
          /\ IF els = << >>
             THEN NextSelector /\ UNCHANGED pos
             ELSE pc' = "read" /\ pos' = 1 /\ UNCHANGED sel
          /\ UNCHANGED selFailed
  /\ UNCHANGED << env, elapsed, suggestions, fallbackRan, all_elements, fpos,
                  exc, failedAt, pending, quitCalls, quitFailed, resp >>

\* text = elem.text.strip(); append it if it passes the filter
ReadElem ==
  /\ pc = "read"
  /\ pos <= Len(elements)
  /\ \/ SelectorFailed /\ UNCHANGED << pos, suggestions >>
     \/ LET text == strip(elements[pos])
        IN /\ suggestions' = IF KeepSelector(text, suggestions)
                             THEN Append(suggestions, text)
                             ELSE suggestions
           /\ pos' = pos + 1
           /\ UNCHANGED << pc, sel, selFailed >>
  /\ UNCHANGED << env, elapsed, elements, queried, fallbackRan, all_elements,
                  fpos, exc, failedAt, pending, quitCalls, quitFailed, resp >>

EndSelectorNoBreak ==
  /\ pc = "read"
  /\ pos > Len(elements)
  /\ NextSelector
  /\ UNCHANGED << env, elapsed, elements, pos, suggestions, selFailed, queried,
                  fallbackRan, all_elements, fpos, exc, failedAt, pending,
                  quitCalls, quitFailed, resp >>

\* every element was read: if suggestions: break
EndSelector ==
  /\ pc = "read"
  /\ pos > Len(elements)
  /\ IF suggestions # << >>
     THEN pc' = "afterloop" /\ UNCHANGED sel
     ELSE NextSelector
  /\ UNCHANGED << env, elapsed, elements, pos, suggestions, selFailed, queried,
                  fallbackRan, all_elements, fpos, exc, failedAt, pending,
                  quitCalls, quitFailed, resp >>

\* if not suggestions: the alternative approach is tried
AfterLoop ==
  /\ pc = "afterloop"
  /\ IF suggestions = << >>
     THEN fallbackRan' = TRUE /\ pc' = "fbfind"
     ELSE pc' = "return" /\ UNCHANGED fallbackRan
  /\ UNCHANGED << env, elapsed, sel, elements, pos, suggestions, selFailed,
                  queried, all_elements, fpos, exc, failedAt, pending,
                  quitCalls, quitFailed, resp >>

\* all_elements = driver.find_elements(By.CSS_SELECTOR, "div, span, li");
\* an exception is logged and the scan is over
FallbackFind ==
  /\ pc = "fbfind"
  /\ \/ pc' = "return" /\ UNCHANGED << all_elements, fpos >>
     \/ \E page \in FallbackPages :
          /\ all_elements' = page
          /\ fpos' = 1
          /\ pc' = "fbread"
  /\ UNCHANGED << env, elapsed, sel, elements, pos, suggestions, selFailed,
                  queried, fallbackRan, exc, failedAt, pending, quitCalls,
                  quitFailed, resp >>

\* one element of the fallback scan: read, filter, append, and break once
\* ten are collected; an exception is logged and the scan is over
FallbackRead ==
  /\ pc = "fbread"
  /\ fpos <= Len(all_elements)
  /\ \/ pc' = "return" /\ UNCHANGED << fpos, suggestions >>
     \/ LET text == strip(all_elements[fpos])
        IN IF KeepFallback(text, suggestions, query)
           THEN /\ suggestions' = Append(suggestions, text)
                /\ IF Len(suggestions') >= FallbackLimit
                   THEN pc' = "return" /\ UNCHANGED fpos
                   ELSE fpos' = fpos + 1 /\ UNCHANGED pc
           ELSE /\ fpos' = fpos + 1
                /\ UNCHANGED << pc, suggestions >>
  /\ UNCHANGED << env, elapsed, sel, elements, pos, selFailed, queried,
                  fallbackRan, all_elements, exc, failedAt, pending, quitCalls,
                  quitFailed, resp >>

\* the fallback loop ran out of elements
FallbackEnd ==
  /\ pc = "fbread"
  /\ fpos > Len(all_elements)
  /\ pc' = "return"
  /\ UNCHANGED << env, elapsed, scan, exc, failedAt, pending, quitCalls,
                  quitFailed, resp >>

\* return suggestions
Return ==
  /\ pc = "return"
  /\ pending' = [kind |-> "return", value |-> suggestions]
  /\ pc' = "finally"
  /\ UNCHANGED << env, elapsed, scan, exc, failedAt, quitCalls, quitFailed,
                  resp >>

ExceptSwallows ==
  /\ pc = "except"
  /\ pending' = [kind |-> "return", value |-> suggestions]
  /\ pc' = "finally"
  /\ UNCHANGED << env, elapsed, scan, exc, failedAt, quitCalls, quitFailed,
                  resp >>

\* except Exception as e: raise HTTPException(500,
\*   f"Failed to get suggestions: {str(e)}")
Except ==
  /\ pc = "except"
  /\ pending' = HTTPException(500, << FailedToGet >> \o StrOf(exc))
  /\ pc' = "finally"
  /\ UNCHANGED << env, elapsed, scan, exc, failedAt, quitCalls, quitFailed,
                  resp >>

FinallyOnSuccessOnly ==
  /\ pc = "finally"
  /\ IF driver /\ pending.kind = "return"
     THEN /\ quitCalls' = quitCalls + 1
          /\ \/ sessionLive' = FALSE /\ UNCHANGED quitFailed
             \/ quitFailed' = TRUE /\ sessionLive' \in BOOLEAN
     ELSE UNCHANGED << quitCalls, quitFailed, sessionLive >>
  /\ pc' = "respond"
  /\ UNCHANGED << WEBDRIVER_MANAGER_AVAILABLE, request, query, provisionCalls,
                  chromedriver_path, launchVia, driver, elapsed, scan, exc,
                  failedAt, pending, resp >>

FinallyPropagates ==
  /\ pc = "finally"
  /\ IF driver
     THEN /\ quitCalls' = quitCalls + 1
          /\ \/ sessionLive' = FALSE /\ UNCHANGED << quitFailed, pending >>
             \/ /\ quitFailed' = TRUE
                /\ sessionLive' \in BOOLEAN
                /\ \E c \in Causes : pending' = WebDriverException(c)
     ELSE UNCHANGED << quitCalls, quitFailed, sessionLive, pending >>
  /\ pc' = "respond"
  /\ UNCHANGED << WEBDRIVER_MANAGER_AVAILABLE, request, query, provisionCalls,
                  chromedriver_path, launchVia, driver, elapsed, scan, exc,
                  failedAt, resp >>

\* finally: if driver: try: driver.quit() except: logger.warning(...).
\* A quit that raises is only logged; whether the browser process is gone
\* then is not known.
Finally ==
  /\ pc = "finally"
  /\ IF driver
     THEN /\ quitCalls' = quitCalls + 1
          /\ \/ sessionLive' = FALSE /\ UNCHANGED quitFailed
             \/ quitFailed' = TRUE /\ sessionLive' \in BOOLEAN
     ELSE UNCHANGED << quitCalls, quitFailed, sessionLive >>
  /\ pc' = "respond"
  /\ UNCHANGED << WEBDRIVER_MANAGER_AVAILABLE, request, query, provisionCalls,
                  chromedriver_path, launchVia, driver, elapsed, scan, exc,
                  failedAt, pending, resp >>

\* get_suggestions: SuggestionResponse(...) on a return; an HTTPException
\* is re-raised and becomes the response; anything else becomes a 500
\* "Internal server error"
Respond ==
  /\ pc = "respond"
  /\ resp' =
       IF pending.kind = "return"
       THEN [status |-> 200, query |-> strip(request),
             suggestions |-> pending.value, count |-> Len(pending.value),
             result |-> "success"]
       ELSE IF pending.kind = "HTTPException"
       THEN [status |-> pending.status_code, detail |-> pending.detail]
       ELSE [status |-> 500,
             detail |-> << "Internal server error: " >> \o StrOf(pending)]
  /\ pc' = "done"
  /\ UNCHANGED << WEBDRIVER_MANAGER_AVAILABLE, request, locals >>

(* --------------------------- specifications ---------------------------- *)

\* the steps of a request being handled
Step ==
  \/ Validate
  \/ Provision
  \/ Launch
  \/ Navigate
  \/ NavigateHangs
  \/ LocateInput
  \/ TypeQuery
  \/ FindSelector
  \/ ReadElem
  \/ EndSelector
  \/ AfterLoop
  \/ FallbackFind
  \/ FallbackRead
  \/ FallbackEnd
  \/ Return
  \/ Except
  \/ Finally
  \/ Respond

Next == Receive \/ Step

Spec == Init /\ [][Next]_vars

\* a request being handled keeps executing: the handler is one sequential
\* blocking call
FairSpec == Spec /\ WF_vars(Step)

(* ------------------------------ properties ----------------------------- *)

NoDuplicates(list) ==
  \A i, j \in 1..Len(list) : i # j => list[i] # list[j]

\* the trimmed texts of `texts` longer than two characters, in order, each
\* kept the first time it occurs
RECURSIVE CollectFrom(_, _)
CollectFrom(texts, acc) ==
  IF texts = << >> THEN acc
  ELSE LET t == strip(Head(texts))
       IN CollectFrom(Tail(texts),
                      IF Len(t) > 2 /\ ~InList(t, acc) THEN Append(acc, t) ELSE acc)

SelectorCandidates(texts) == CollectFrom(texts, << >>)

\* the scraping call has left its try block
Extracted == pc \in {"return", "finally", "respond", "done"}

\* C1: a 200 response has count = len(suggestions), no two equal
\* suggestions and no suggestion of length <= 2, whichever scan produced
\* the list.
C1_ResponseWellFormed ==
  (pc = "done" /\ resp.status = 200) =>
    /\ strip(request) # << >>
    /\ resp.count = Len(resp.suggestions)
    /\ NoDuplicates(resp.suggestions)
    /\ \A i \in 1..Len(resp.suggestions) : Len(resp.suggestions[i]) > 2

\* a 200 response built from a selector whose elements repeat a text
C1_Witness ==
  /\ pc = "done"
  /\ resp.status = 200
  /\ ~fallbackRan
  /\ elements = << Category, cats, cats >>
  /\ resp.count = 2

\* C2: a request whose query is empty or whitespace-only is answered 400
\* and no driver discovery, launch, navigation or teardown happens for it.
C2_BlankQueryShortCircuits ==
  (pc # "idle" /\ strip(request) = << >>) =>
    /\ pc \in {"validate", "done"}
    /\ provisionCalls = 0
    /\ launchVia = "none"
    /\ ~driver /\ ~sessionLive
    /\ queried = 0
    /\ quitCalls = 0
    /\ (pc = "done" => resp.status = 400)

\* a whitespace-only query was answered
C2_Witness ==
  /\ pc = "done"
  /\ request = << " ", " " >>
  /\ resp.status = 400

\* C3 as stated: a call that launched a session has invoked driver.quit
\* exactly once when it returns or raises, and no session is left live.
C3_QuitOnceAndNoSessionLeft ==
  /\ quitCalls <= 1
  /\ (pc \in {"respond", "done"} /\ driver) => (quitCalls = 1 /\ ~sessionLive)

\* C3 amended: driver.quit is invoked exactly once on every exit path of a
\* call that launched a session, and never without one; the session is gone
\* when that quit returned, and may remain when it raised.
C3_QuitExactlyOnce ==
  /\ quitCalls <= 1
  /\ (~driver => quitCalls = 0)
  /\ (pc \in {"respond", "done"} /\ driver) =>
       (quitCalls = 1 /\ (~quitFailed => ~sessionLive))

\* the wait for the search input timed out and the session was quit
C3_Witness ==
  /\ pc = "done"
  /\ driver
  /\ failedAt = "locate"
  /\ exc = TimeoutException
  /\ quitCalls = 1
  /\ ~sessionLive

\* C4: when no selector failed and the selector the loop stopped at has a
\* filtered candidate, no later selector was queried, the fallback scan did
\* not run, and the list is that selector's trimmed texts longer than two
\* characters, in element order, without later duplicates.
C4_FirstMatchingSelectorWins ==
  (Extracted /\ queried > 0 /\ ~selFailed
     /\ SelectorCandidates(elements) # << >>) =>
    /\ queried = sel
    /\ ~fallbackRan
    /\ suggestions = SelectorCandidates(elements)
    /\ (pc = "done" =>
          resp.status = 200 /\ resp.suggestions = SelectorCandidates(elements))

\* the third selector is the first with candidates; its texts are trimmed
C4_Witness ==
  /\ pc = "done"
  /\ ~selFailed
  /\ sel = 3
  /\ queried = 3
  /\ elements = << << " ", " " >> \o cats \o << "\t" >>, Category >>
  /\ resp.status = 200
  /\ resp.suggestions = << cats, Category >>

\* C5: the fallback scan runs only after all eight selectors were queried
\* and left the list empty, and runs whenever the loop leaves it empty; its
\* list has at most 10 entries, each of length strictly between 2 and 200,
\* each containing the query case-insensitively, none equal to the query,
\* no duplicates; the scan does not go on once 10 are collected.
C5_FallbackScan ==
  /\ fallbackRan =>
       /\ queried = Len(selectors)
       /\ Len(suggestions) <= FallbackLimit
       /\ NoDuplicates(suggestions)
       /\ \A i \in 1..Len(suggestions) :
            /\ Len(suggestions[i]) > 2 /\ Len(suggestions[i]) < 200
            /\ Contains(lower(query), lower(suggestions[i]))
            /\ suggestions[i] # query
  /\ (pc = "fbread" => Len(suggestions) < FallbackLimit)
  /\ (pc = "return" /\ suggestions = << >>) => fallbackRan

\* the fallback scan stopped at ten of the page's qualifying texts
C5_Witness ==
  /\ pc = "done"
  /\ fallbackRan
  /\ resp.status = 200
  /\ resp.count = FallbackLimit
  /\ Len(all_elements) > FallbackLimit

\* C6: a failure of navigation, of locating the search input (its timeout
\* included) or of clearing/typing gives a 500 response whose detail holds
\* the cause's message, and no suggestion list.
C6_ScrapeFailureIs500 ==
  (pc = "done" /\ failedAt \in {"navigate", "locate", "type"}) =>
    /\ resp.status = 500
    /\ resp.detail[1] = FailedToGet
    /\ Contains(exc.msg, resp.detail)
    /\ "suggestions" \notin DOMAIN resp

\* navigation failed
C6_Witness ==
  /\ pc = "done"
  /\ failedAt = "navigate"
  /\ exc = WebDriverException(<< "net::ERR_FAILED" >>)
  /\ resp.status = 500

\* what the request answers, by the scrape's outcome alone
ScrapeResponse ==
  IF exc = NoExc
  THEN [status |-> 200, query |-> strip(request), suggestions |-> suggestions,
        count |-> Len(suggestions), result |-> "success"]
  ELSE [status |-> 500, detail |-> << FailedToGet >> \o StrOf(exc)]

\* C7: whether driver.quit raised or returned, the response is the same:
\* 200 with the scraped list when the scrape succeeded, 500 with the
\* scrape's cause when it failed.
C7_TeardownFailureIsSilent ==
  (pc = "done" /\ quitCalls = 1) => resp = ScrapeResponse

\* driver.quit raised after a successful scrape
C7_Witness ==
  /\ pc = "done"
  /\ quitFailed
  /\ resp.status = 200
  /\ resp.count > 0

\* no driver was found on the search path or at a common path
NoDriverFound == provisionCalls = 1 /\ chromedriver_path = NoPath

\* C8 as stated: with no driver found the managed download is attempted;
\* when it is unavailable or fails the request fails with 500, no session
\* is launched, nothing is scraped, and the detail lists the remediation
\* options.
C8_ManagedDownloadOrRemediation ==
  (pc = "done" /\ NoDriverFound) =>
    /\ launchVia = "manager"
    /\ (~WEBDRIVER_MANAGER_AVAILABLE \/ failedAt = "launch") =>
         /\ resp.status = 500
         /\ ~driver /\ queried = 0
         /\ Contains(Remediation, resp.detail)

\* C8 amended: with no driver found, the managed download is attempted
\* when it is available, and its failure gives 500 with the
\* webdriver-manager message and cause but no remediation list; when it is
\* unavailable the browser library's own detection is attempted, and its
\* failure gives 500 with the remediation list.  In both failures no
\* session is launched and nothing is scraped.
C8_ProvisioningFallbacks ==
  (pc = "done" /\ NoDriverFound) =>
    /\ launchVia = (IF WEBDRIVER_MANAGER_AVAILABLE THEN "manager" ELSE "auto")
    /\ failedAt = "launch" =>
         /\ resp.status = 500
         /\ ~driver /\ ~sessionLive /\ queried = 0 /\ quitCalls = 0
         /\ Contains(exc.detail, resp.detail)
         /\ IF WEBDRIVER_MANAGER_AVAILABLE
            THEN /\ exc.detail[1] = FailedManager
                 /\ ~Contains(Remediation, resp.detail)
            ELSE Contains(Remediation, resp.detail)

\* the managed download is unavailable and automatic detection failed
C8_Witness ==
  /\ pc = "done"
  /\ NoDriverFound
  /\ ~WEBDRIVER_MANAGER_AVAILABLE
  /\ failedAt = "launch"
  /\ resp.status = 500

\* every entry passes the fallback scan's filter for some page element
FromFallback(list) ==
  \A i \in 1..Len(list) :
    /\ \E k \in 1..Len(all_elements) : strip(all_elements[k]) = list[i]
    /\ KeepFallback(list[i], << >>, query)

\* C9: a selector failure is not surfaced and the loop goes on; the list
\* returned is that of one strategy: the candidates of the selector the
\* loop stopped at, or those of the fallback scan, never leftovers of a
\* selector that failed partway.
C9_SingleStrategy ==
  /\ selFailed => failedAt \notin {"select", "read"}
  /\ pc = "return" =>
       IF fallbackRan
       THEN FromFallback(suggestions)
       ELSE suggestions = SelectorCandidates(elements)

\* C10: every request being handled ends with a response or is blocked in
\* a page load that never returns; a response is a 200, 400 or 500 and the
\* session of the request has been quit; the input wait never exceeds 10
\* units and the loop queries at most eight selectors; a request blocked in
\* the page load stays blocked, unanswered, its session never quit.
C10_CompletesUnlessPageLoadHangs ==
  /\ (pc \notin {"idle", "done"}) ~> (pc \in {"done", "hung"})
  /\ [](pc = "done" => resp.status \in {200, 400, 500} /\ (driver => quitCalls = 1))
  /\ [](elapsed <= WaitTimeout /\ sel <= Len(selectors) /\ queried <= Len(selectors))
  /\ [](pc = "hung" => [](/\ pc = "hung"
                          /\ resp = NoResp
                          /\ sessionLive
                          /\ quitCalls = 0))

\* the longest path: all eight selectors queried, the fallback page read
\* to its end, the session quit, the response given
C10_Witness ==
  /\ pc = "done"
  /\ queried = Len(selectors)
  /\ fallbackRan
  /\ all_elements # << >>
  /\ fpos > Len(all_elements)
  /\ quitCalls = 1
  /\ resp.status = 200

====
